---------------------------- MODULE Spec2Model ----------------------------
(***************************************************************************)
(* Model of the streaming JSON object extraction of process_nlq_request    *)
(* (ca-api-backend/app.py, lines 124-190): the response body arrives in    *)
(* chunks, each chunk is decoded, stripped and appended to `buffer`, and a *)
(* brace-matching scan cuts candidate spans out of the buffer, validates   *)
(* them with json.loads and yields the decoded values.                     *)
(*                                                                         *)
(* Text is a sequence of one-character strings.  Chunks are text (each     *)
(* chunk is assumed to decode as UTF-8 on its own) and the transport is    *)
(* assumed to deliver the whole body without a connection error.           *)
(***************************************************************************)
EXTENDS Integers, Sequences, FiniteSets

(***************************************************************************)
(* Text helpers (Python str operations used by the code).                  *)
(***************************************************************************)

\* The whitespace of the model's alphabet (str.strip and the JSON decoder
\* agree on it).
WS == {" "}

DIGITS == {"1"}

\* s[n:], the text after the first n characters.
SliceFrom(s, n) == SubSeq(s, n + 1, Len(s))

\* s[:n], the first n characters.
SliceTo(s, n) == SubSeq(s, 1, n)

RECURSIVE LStripFrom(_, _)
LStripFrom(s, i) ==
  IF i <= Len(s) /\ s[i] \in WS THEN LStripFrom(s, i + 1) ELSE i

RECURSIVE RStripTo(_, _)
RStripTo(s, j) ==
  IF j >= 1 /\ s[j] \in WS THEN RStripTo(s, j - 1) ELSE j

\* str.strip()
Strip(s) == SubSeq(s, LStripFrom(s, 1), RStripTo(s, Len(s)))

\* str.endswith("]")
EndsWithBracket(s) == Len(s) >= 1 /\ s[Len(s)] = "]"

\* json_str[:-len("]")] if json_str.endswith("]") else json_str
StripBracket(s) == IF EndsWithBracket(s) THEN SubSeq(s, 1, Len(s) - 1) ELSE s

(***************************************************************************)
(* json.loads on the model's alphabet  { } [ ] , : " a 1 space.            *)
(* A parse position result is: n > 0, the index after the parsed value;    *)
(* 0, a syntax error; -1, the text ended inside the value; -2, the value   *)
(* is nested too deep (the first of these met from left to right).         *)
(***************************************************************************)

RECURSIVE SkipWs(_, _)
SkipWs(s, i) == IF i <= Len(s) /\ s[i] \in WS THEN SkipWs(s, i + 1) ELSE i

\* Index after the closing quote of a string whose content starts at j.
RECURSIVE StringEnd(_, _)
StringEnd(s, j) ==
  IF j > Len(s) THEN -1
  ELSE IF s[j] = "\"" THEN j + 1
  ELSE StringEnd(s, j + 1)

RECURSIVE NumberEnd(_, _)
NumberEnd(s, j) ==
  IF j <= Len(s) /\ s[j] \in DIGITS THEN NumberEnd(s, j + 1) ELSE j

\* The nesting depth json.loads decodes: entering an object or an array
\* nested deeper raises RecursionError (the interpreter's recursion limit,
\* scaled to the model's texts).
DepthLimit == 2

RECURSIVE ParseValueAt(_, _, _)
RECURSIVE ParseMembers(_, _, _)
RECURSIVE ParseElements(_, _, _)

\* s[i] = "{", at nesting depth d.
ParseObjectAt(s, i, d) ==
  IF d > DepthLimit THEN -2
  ELSE LET j == SkipWs(s, i + 1)
       IN  IF j > Len(s) THEN -1
           ELSE IF s[j] = "}" THEN j + 1
           ELSE ParseMembers(s, j, d)

\* s[i] = "[", at nesting depth d.
ParseArray(s, i, d) ==
  IF d > DepthLimit THEN -2
  ELSE LET j == SkipWs(s, i + 1)
       IN  IF j > Len(s) THEN -1
           ELSE IF s[j] = "]" THEN j + 1
           ELSE ParseElements(s, j, d)

\* A value starting exactly at i (whitespace already skipped); an object or
\* array there is at nesting depth d.
ParseValueAt(s, i, d) ==
  IF i > Len(s) THEN -1
  ELSE IF s[i] = "{" THEN ParseObjectAt(s, i, d)
  ELSE IF s[i] = "[" THEN ParseArray(s, i, d)
  ELSE IF s[i] = "\"" THEN StringEnd(s, i + 1)
  ELSE IF s[i] \in DIGITS THEN NumberEnd(s, i)
  ELSE 0

\* "key" : value  ( , "key" : value )*  }   of an object at depth d
ParseMembers(s, j, d) ==
  IF j > Len(s) THEN -1
  ELSE IF s[j] # "\"" THEN 0
  ELSE LET k == StringEnd(s, j + 1)
       IN  IF k <= 0 THEN k
           ELSE LET c == SkipWs(s, k)
                IN  IF c > Len(s) THEN -1
                    ELSE IF s[c] # ":" THEN 0
                    ELSE LET v == ParseValueAt(s, SkipWs(s, c + 1), d + 1)
                         IN  IF v <= 0 THEN v
                             ELSE LET m == SkipWs(s, v)
                                  IN  IF m > Len(s) THEN -1
                                      ELSE IF s[m] = "," THEN ParseMembers(s, SkipWs(s, m + 1), d)
                                      ELSE IF s[m] = "}" THEN m + 1
                                      ELSE 0

\* value ( , value )*  ]   of an array at depth d
ParseElements(s, j, d) ==
  LET v == ParseValueAt(s, j, d + 1)
  IN  IF v <= 0 THEN v
      ELSE LET m == SkipWs(s, v)
           IN  IF m > Len(s) THEN -1
               ELSE IF s[m] = "," THEN ParseElements(s, SkipWs(s, m + 1), d)
               ELSE IF s[m] = "]" THEN m + 1
               ELSE 0

\* A top-level value starting exactly at i.
ParseValue(s, i) == ParseValueAt(s, i, 1)

\* A top-level object, s[i] = "{".
ParseObject(s, i) == ParseObjectAt(s, i, 1)

\* json.loads(s) raises RecursionError, which is no json.JSONDecodeError.
RaisesRecursion(s) == ParseValue(s, SkipWs(s, 1)) = -2

\* json.loads(s) returns (does not raise json.JSONDecodeError): one JSON
\* value, surrounded by optional whitespace, and nothing else.
Decodable(s) ==
  LET e == ParseValue(s, SkipWs(s, 1))
  IN  e > 0 /\ SkipWs(s, e) = Len(s) + 1

\* The value json.loads(s) returns for a decodable s, as its token text:
\* whitespace between tokens does not reach the value, whitespace inside a
\* string literal does.
RECURSIVE CanonFrom(_, _, _)
CanonFrom(s, i, inStr) ==
  IF i > Len(s) THEN << >>
  ELSE IF s[i] = "\"" THEN <<s[i]>> \o CanonFrom(s, i + 1, ~inStr)
  ELSE IF s[i] \in WS /\ ~inStr THEN CanonFrom(s, i + 1, inStr)
  ELSE <<s[i]>> \o CanonFrom(s, i + 1, inStr)

Loads(s) == CanonFrom(s, 1, FALSE)

(***************************************************************************)
(* The extraction loop, lines 139-178.                                     *)
(***************************************************************************)

\* buffer.find('{'): the 1-based position of the first "{", 0 when there is
\* none (Python's -1).
RECURSIVE FindFrom(_, _)
FindFrom(buf, i) ==
  IF i > Len(buf) THEN 0
  ELSE IF buf[i] = "{" THEN i
  ELSE FindFrom(buf, i + 1)

\* Mutant of FindBrace: a "{" is found only at the front of the buffer.
FindBraceAtStart(buf) == IF buf # << >> /\ buf[1] = "{" THEN 1 ELSE 0

\* Mutant of FindBrace: the first brace of either kind is found.
FindBraceAny(buf) ==
  IF \E i \in 1 .. Len(buf) : buf[i] \in {"{", "}"}
  THEN CHOOSE i \in 1 .. Len(buf) :
         buf[i] \in {"{", "}"} /\ \A j \in 1 .. i - 1 : buf[j] \notin {"{", "}"}
  ELSE 0

\* Line 141: start_idx.
FindBrace(buf) == FindFrom(buf, 1)

\* Mutant of CountChar: an open/closed flag instead of a nesting counter.
CountCharFlag(brace_count, c) ==
  IF c = "{" THEN 1
  ELSE IF c = "}" THEN brace_count - 1
  ELSE brace_count

\* One character of the scan: the nesting counter after reading c.
CountChar(brace_count, c) ==
  IF c = "{" THEN brace_count + 1
  ELSE IF c = "}" THEN brace_count - 1
  ELSE brace_count

\* The for loop of lines 149-158 from position i with the counter so far.
\* end_idx is Python's i + 1: the number of characters of the buffer up to
\* and including the one that brought the counter to zero; it keeps its
\* initial value when the loop runs off the end of the buffer.  counts is
\* the value of brace_count after each character read.
RECURSIVE ScanFrom(_, _, _, _, _)
ScanFrom(buf, i, brace_count, end_idx, counts) ==
  LET n == CountChar(brace_count, buf[i])
  IN  IF n = 0
      THEN [brace_count |-> 0, end_idx |-> i, counts |-> Append(counts, n)]
      ELSE IF i = Len(buf)
      THEN [brace_count |-> n, end_idx |-> end_idx, counts |-> Append(counts, n)]
      ELSE ScanFrom(buf, i + 1, n, end_idx, Append(counts, n))

\* Lines 146-158 for a buffer whose first "{" is at start_idx.
Scan(buf, start_idx) == ScanFrom(buf, start_idx, 0, start_idx - 1, << >>)

\* Lines 164-165: the candidate text handed to json.loads.
JsonStr(buf, start_idx, end_idx) ==
  StripBracket(Strip(SubSeq(buf, start_idx, end_idx)))

\* Mutant of TrimError: line 170 is missing, the bad span stays.
TrimErrorKeeps(buf, end_idx) == buf

\* Line 170: the buffer after a span that fails to decode.
TrimError(buf, end_idx) == SliceFrom(buf, end_idx)

\* Mutant of TrimValue: one character is dropped instead of the span.
TrimValueOne(buf, end_idx) == SliceFrom(buf, 1)

\* Line 172: the buffer after a span that decodes.
TrimValue(buf, end_idx) == SliceFrom(buf, end_idx)

\* Mutant of AbortBuffer: the handler of line 176 drops the span.
AbortBufferTrimmed(buf, end_idx) == SliceFrom(buf, end_idx)

\* Lines 176-178: the buffer after an exception that is no JSONDecodeError
\* (raised by line 167, before any assignment to buffer).
AbortBuffer(buf, end_idx) == buf

\* What json.loads(json_str) of line 167 does.
LoadsKind(json_str) ==
  IF Decodable(json_str) THEN "value"
  ELSE IF RaisesRecursion(json_str) THEN "abort"
  ELSE "decode_error"

\* One pass of the loop body over buf, lines 141-178: what it found, the
\* scan it made, the text it decoded and the buffer it leaves.
Attempt(buf) ==
  LET start_idx == FindBrace(buf)
  IN  IF start_idx = 0
      THEN [kind |-> "no_brace", json_str |-> << >>, buffer |-> buf,
            start_idx |-> 0, end_idx |-> 0, counts |-> << >>, raw |-> << >>]
      ELSE LET sc == Scan(buf, start_idx)
           IN  IF sc.brace_count # 0
               THEN [kind |-> "unbalanced", json_str |-> << >>, buffer |-> buf,
                     start_idx |-> start_idx, end_idx |-> 0,
                     counts |-> sc.counts, raw |-> << >>]
               ELSE LET json_str == JsonStr(buf, start_idx, sc.end_idx)
                        kind == LoadsKind(json_str)
                    IN  [kind |-> kind,
                         json_str |-> json_str,
                         buffer |-> IF kind = "value" THEN TrimValue(buf, sc.end_idx)
                                    ELSE IF kind = "decode_error"
                                    THEN TrimError(buf, sc.end_idx)
                                    ELSE AbortBuffer(buf, sc.end_idx),
                         start_idx |-> start_idx, end_idx |-> sc.end_idx,
                         counts |-> sc.counts,
                         raw |-> SubSeq(buf, start_idx, sc.end_idx)]

\* What the generator yields for a decoded value (line 173, line 182).
ValueOutcome(json_str) ==
  [type |-> "Value", value |-> Loads(json_str), code |-> 0]

\* What line 169 logs for a span that fails to decode.
DecodeErrorLog(json_str) == [kind |-> "JSONDecodeError", text |-> json_str]

\* Mutant of LoopContinues: the loop goes on after a span that fails to
\* decode (no break after line 170).
LoopContinuesAfterError(kind) == TRUE

\* Mutant of LoopContinues: the loop breaks after the first yielded value.
LoopBreaksAfterValue(kind) == FALSE

\* Whether the while loop goes round again after a pass: it does after a
\* yielded value (line 174 falls through to line 139) and breaks otherwise
\* (lines 143, 161, 171).
LoopContinues(kind) == kind = "value"

\* What line 177 logs for an exception that is no JSONDecodeError.
AbortLog(buf) == [kind |-> "Error processing chunk", text |-> buf]

\* The record of one pass of the loop: the attempt, and how much of the text
\* the call scanned was already trimmed away when the pass began.
Pass(a, offset) ==
  [kind |-> a.kind, offset |-> offset, from |-> a.start_idx, to |-> a.end_idx,
   counts |-> a.counts, raw |-> a.raw, json_str |-> a.json_str,
   left |-> Len(a.buffer)]

\* The one element of a one-element set.
Only(S) == CHOOSE x \in S : TRUE

\* The while loop of lines 139-178 run on the state st of one feed call:
\* its buffer, the outcomes yielded and records logged so far, the texts
\* handed to json.loads so far, and the passes made so far (total is the
\* length of the text the call started from).  LoopPass is one iteration
\* on st, a being its attempt; ExtractLoop fixes st and a as values before
\* the iteration is taken.
RECURSIVE ExtractLoop(_)
LoopPass(st, a) ==
  LET passes == Append(st.passes, Pass(a, st.total - Len(st.buffer)))
      after ==
        IF a.kind = "value"
        THEN [st EXCEPT !.buffer = a.buffer,
                        !.out = Append(st.out, ValueOutcome(a.json_str)),
                        !.decoded = st.decoded \o <<a.json_str, a.json_str>>,
                        !.stop = a.kind,
                        !.passes = passes]
        ELSE IF a.kind = "decode_error"
        THEN [st EXCEPT !.buffer = a.buffer,
                        !.logged = Append(st.logged, DecodeErrorLog(a.json_str)),
                        !.decoded = Append(st.decoded, a.json_str),
                        !.stop = a.kind,
                        !.passes = passes]
        ELSE IF a.kind = "abort"
        THEN [st EXCEPT !.buffer = a.buffer,
                        !.logged = Append(st.logged, AbortLog(a.buffer)),
                        !.decoded = Append(st.decoded, a.json_str),
                        !.stop = a.kind,
                        !.passes = passes]
        ELSE [st EXCEPT !.stop = a.kind, !.passes = passes]
  IN  IF a.kind \in {"value", "decode_error"} /\ LoopContinues(a.kind)
      THEN ExtractLoop(after)
      ELSE after

ExtractLoop(st) ==
  Only({Only({LoopPass(s, a) : a \in {Attempt(s.buffer)}}) : s \in {st}})

\* Mutant of SkipChunk: the test of line 131 is missing.
SkipChunkNever(chunk) == FALSE

\* Line 131: `if not chunk: continue`.
SkipChunk(chunk) == chunk = << >>

\* Line 134: chunk.decode('utf-8').strip()
DecodedChunk(chunk) == Strip(chunk)

\* The body of the `async for` for one chunk, lines 131-178.
Feed(buf, chunk) ==
  IF SkipChunk(chunk)
  THEN [buffer |-> buf, out |-> << >>, logged |-> << >>, decoded |-> << >>,
        stop |-> "skipped", passes |-> << >>, total |-> Len(buf)]
  ELSE ExtractLoop([buffer |-> buf \o DecodedChunk(chunk), out |-> << >>,
                    logged |-> << >>, decoded |-> << >>, stop |-> "none",
                    passes |-> << >>,
                    total |-> Len(buf) + Len(DecodedChunk(chunk))])

\* Mutant of FinishGuard: the comparison with "]" is missing.
FinishGuardNoBracket(buf) == Strip(buf) # << >>

\* Mutant of FinishGuard: the final decode is unguarded.
FinishGuardAlways(buf) == TRUE

\* Line 181: the guard of the final decode.
FinishGuard(buf) == Strip(buf) # << >> /\ Strip(buf) # <<"]">>

\* Lines 181-182 and 189-190: the final decode of the whole buffer.  A
\* JSONDecodeError raised by line 182 leaves the `async with` blocks and is
\* caught by the bare `except:` of line 189, which logs and ends the
\* generator.
Finish(buf) ==
  IF ~FinishGuard(buf)
  THEN [out |-> << >>, logged |-> << >>, decoded |-> << >>, stop |-> "nothing"]
  ELSE IF Decodable(buf)
  THEN [out |-> <<ValueOutcome(buf)>>, logged |-> << >>, decoded |-> <<buf>>,
        stop |-> "value"]
  ELSE [out |-> << >>, logged |-> <<[kind |-> "some Errror", text |-> << >>]>>,
        decoded |-> <<buf>>, stop |-> "raised"]

\* Line 128.
HTTP_OK == 200

\* Mutant of ErrorOutcome: the response body is left out.
ErrorOutcomeNoBody(code, error_text) ==
  [type |-> "Error", value |-> << >>, code |-> code]

\* Line 187: the outcome yielded for a response whose status is not 200.
ErrorOutcome(code, error_text) ==
  [type |-> "Error", value |-> error_text, code |-> code]

(***************************************************************************)
(* Response bodies of the model.                                           *)
(***************************************************************************)

Q == "\""

Obj      == <<"{", Q, "a", Q, ":", "1", "}">>
ObjNest  == <<"{", Q, "a", Q, ":", " ", "{", "}", "}">>
ObjSp    == <<"{", Q, "a", Q, ":", Q, " ", Q, "}">>
ObjClose == <<"{", Q, "a", Q, ":", Q, "}", Q, "}">>
ObjOpen  == <<"{", Q, "a", Q, ":", Q, "{", Q, "}">>
ObjEmpty == <<"{", "}">>
Bad      == <<"{", "a", "}">>
Trunc    == <<"{", Q, "a", Q, ":">>
ObjDeep  == <<"{", Q, "a", Q, ":", "[", "[", "]", "]", "}">>

\* The texts a response body is put together from: decodable objects (one
\* with whitespace between tokens and a nested object, one with whitespace
\* inside a string, two with a brace inside a string), a brace-balanced span
\* that is not JSON, a truncated object, an object nested deeper than
\* DepthLimit, array framing and whitespace.
Pieces ==
  {Obj, ObjNest, ObjSp, ObjClose, ObjOpen, ObjEmpty, Bad, Trunc, ObjDeep,
   <<"[">>, <<"]">>, <<",">>, <<" ">>}

\* The number of pieces a response body is made of, at most.
MaxPieces == 2

\* The length of a response body, at most.
MaxLen == 14

RECURSIVE Concats(_)
Concats(n) ==
  IF n = 0 THEN {<< >>}
  ELSE LET prev == Concats(n - 1)
       IN  prev \cup {b \in {p \o q : p \in prev, q \in Pieces} : Len(b) <= MaxLen}

\* The objects of an array-framed body, and how many it holds at most.
FramedObjs == {Obj, ObjNest, ObjEmpty}

MaxObjs == 2

\* "[" o1 ", " o2 ... " ]"
RECURSIVE Framed(_)
Framed(objs) ==
  IF Len(objs) = 1 THEN objs[1] \o <<" ", "]">>
  ELSE objs[1] \o <<",", " ">> \o Framed(SubSeq(objs, 2, Len(objs)))

FramedBodies ==
  {<<"[">> \o Framed(objs) :
     objs \in UNION {[1 .. n -> FramedObjs] : n \in 1 .. MaxObjs}}

Bodies == Concats(MaxPieces) \cup FramedBodies

Statuses == {HTTP_OK, 500}

(***************************************************************************)
(* The run of the generator.                                               *)
(***************************************************************************)

VARIABLES
  status,   \* resp.status
  content,  \* the whole response body
  rest,     \* the part of the body the transport has not delivered yet
  buffer,   \* the code's buffer
  yielded,  \* every outcome the generator has yielded, in order
  pc,       \* "request", "stream" (inside the async for), "done"
  call,     \* the last step taken: its input, the buffer before it, what it
            \* yielded, logged and decoded, why its scan stopped, and the
            \* passes of its extraction loop
  accum,    \* every text appended to the buffer so far (line 135), in order
  resolved  \* the spans resolved so far as a value or a decode failure, as
            \* positions from .. to in accum

vars == <<status, content, rest, buffer, yielded, pc, call, accum, resolved>>

NoCall ==
  [op |-> "none", chunk |-> << >>, before |-> << >>, out |-> << >>,
   logged |-> << >>, decoded |-> << >>, stop |-> "none", passes |-> << >>]

\* A pass resolved its span: it decoded it or found it undecodable, and
\* went through line 172 or 170.
ResolvedPass(p) == p.kind \in {"value", "decode_error"}

\* The spans the passes of one call resolved, as positions in accum, base
\* being the length of accum that had left the buffer before the call.
ResolvedSpans(passes, base) ==
  LET r == SelectSeq(passes, ResolvedPass)
  IN  [k \in 1 .. Len(r) |->
         [kind |-> r[k].kind,
          from |-> base + r[k].offset + r[k].from,
          to |-> base + r[k].offset + r[k].to]]

Init ==
  /\ status \in Statuses
  /\ content \in Bodies
  /\ rest = content
  /\ buffer = << >>
  /\ yielded = << >>
  /\ pc = "request"
  /\ call = NoCall
  /\ accum = << >>
  /\ resolved = << >>

\* Lines 127-129: the response arrived with status 200; the buffer is
\* created empty and the iteration over the chunks starts.
RespondOk ==
  /\ pc = "request"
  /\ status = HTTP_OK
  /\ buffer' = << >>
  /\ pc' = "stream"
  /\ call' = [NoCall EXCEPT !.op = "respond"]
  /\ UNCHANGED <<status, content, rest, yielded, accum, resolved>>

\* Lines 183-187: any other status; the body is read whole and one error
\* outcome is yielded.
RespondError ==
  /\ pc = "request"
  /\ status # HTTP_OK
  /\ LET error_text == rest
         o == ErrorOutcome(status, error_text)
     IN  /\ yielded' = Append(yielded, o)
         /\ call' = [NoCall EXCEPT
                       !.op = "error",
                       !.out = <<o>>,
                       !.logged = <<[kind |-> "Error from server",
                                     text |-> error_text]>>]
  /\ rest' = << >>
  /\ pc' = "done"
  /\ UNCHANGED <<status, content, buffer, accum, resolved>>

\* Lines 130-178: the transport delivers the next chunk (the next n
\* characters of the body; n = 0 is an empty chunk).
FeedChunk ==
  /\ pc = "stream"
  /\ \E n \in 0 .. Len(rest) :
       \E chunk \in {SliceTo(rest, n)} :
         \E r \in {Feed(buffer, chunk)} :
           /\ rest' = SliceFrom(rest, n)
           /\ buffer' = r.buffer
           /\ yielded' = yielded \o r.out
           /\ call' = [op |-> "feed", chunk |-> chunk, before |-> buffer,
                       out |-> r.out, logged |-> r.logged,
                       decoded |-> r.decoded, stop |-> r.stop,
                       passes |-> r.passes]
           /\ accum' = IF SkipChunk(chunk) THEN accum
                       ELSE accum \o DecodedChunk(chunk)
           /\ resolved' = resolved
                            \o ResolvedSpans(r.passes, Len(accum) - Len(buffer))
  /\ UNCHANGED <<status, content, pc>>

\* Lines 180-182 (and 189-190): the body is exhausted, the async for ends.
EndOfStream ==
  /\ pc = "stream"
  /\ rest = << >>
  /\ \E r \in {Finish(buffer)} :
         /\ yielded' = yielded \o r.out
         /\ call' = [op |-> "finish", chunk |-> << >>, before |-> buffer,
                     out |-> r.out, logged |-> r.logged,
                     decoded |-> r.decoded, stop |-> r.stop,
                     passes |-> << >>]
  /\ pc' = "done"
  /\ UNCHANGED <<status, content, rest, buffer, accum, resolved>>

Next == RespondOk \/ RespondError \/ FeedChunk \/ EndOfStream

Spec == Init /\ [][Next]_vars

TypeOK ==
  /\ pc \in {"request", "stream", "done"}
  /\ Len(rest) <= Len(content)

(***************************************************************************)
(* Reference notions the properties are stated with.  They are declarative *)
(* (positions and counts), not the code's loops.                           *)
(***************************************************************************)

\* Position i of s lies inside a string literal: an odd number of quotes
\* precedes it.
InString(s, i) == Cardinality({j \in 1 .. i - 1 : s[j] = Q}) % 2 = 1

BraceInString(s) ==
  \E i \in 1 .. Len(s) : s[i] \in {"{", "}"} /\ InString(s, i)

\* "{" minus "}" in s[a..p], every brace character counted.
Balance(s, a, p) ==
  Cardinality({i \in a .. p : s[i] = "{"})
    - Cardinality({i \in a .. p : s[i] = "}"})

HasBrace(s) == \E i \in 1 .. Len(s) : s[i] = "{"

RefStart(s) == CHOOSE i \in 1 .. Len(s) : s[i] = "{" /\ \A j \in 1 .. i - 1 : s[j] # "{"

\* The end of the candidate span of s, 0 when s holds no complete span.
RefEnd(s) ==
  IF ~HasBrace(s) THEN 0
  ELSE LET a == RefStart(s)
           ends == {p \in a .. Len(s) : Balance(s, a, p) = 0}
       IN  IF ends = {} THEN 0
           ELSE CHOOSE p \in ends : \A q \in ends : p <= q

HasSpan(s) == RefEnd(s) # 0

RefSpan(s) == SubSeq(s, RefStart(s), RefEnd(s))

AfterSpan(s) == SubSeq(s, RefEnd(s) + 1, Len(s))

\* The text left when the decodable candidate spans at the front of s are
\* taken away one after the other: it holds no complete span, or its span
\* fails to decode.
RECURSIVE SkipGood(_)
SkipGood(s) ==
  IF HasSpan(s) /\ Decodable(RefSpan(s)) THEN SkipGood(AfterSpan(s)) ELSE s

\* The values of those decodable spans, in order.
RECURSIVE GoodValues(_)
GoodValues(s) ==
  IF HasSpan(s) /\ Decodable(RefSpan(s))
  THEN <<ValueOutcome(RefSpan(s))>> \o GoodValues(AfterSpan(s))
  ELSE << >>

\* The values of every decodable candidate span of s, spans that fail to
\* decode being discarded and the scan going on after them.
RECURSIVE AllValues(_)
AllValues(s) ==
  IF ~HasSpan(s) THEN << >>
  ELSE IF Decodable(RefSpan(s))
  THEN <<ValueOutcome(RefSpan(s))>> \o AllValues(AfterSpan(s))
  ELSE AllValues(AfterSpan(s))

\* The text left when every complete candidate span is taken away.
RECURSIVE SkipAll(_)
SkipAll(s) == IF HasSpan(s) THEN SkipAll(AfterSpan(s)) ELSE s

\* s is the text of one complete JSON object.
IsObjectText(s) ==
  /\ Decodable(s)
  /\ LET i == SkipWs(s, 1) IN i <= Len(s) /\ s[i] = "{"

\* The text the last feed call scanned: the buffer it found, then the
\* chunk as line 134 decodes it.
Scanned == call.before \o Strip(call.chunk)

FedChunk == call.op = "feed" /\ call.chunk # << >>

(***************************************************************************)
(* C1.  Chunk-boundary invariance: for a response body that is the text of *)
(* one complete JSON object, however it is cut into chunks, the run yields *)
(* exactly one outcome, the Value of the whole text decoded at once.       *)
(* Stated here for texts with no brace character inside a string literal,  *)
(* where the brace scan finds the object's own end, so that what is left   *)
(* to refute it is the handling of the chunks.                             *)
(***************************************************************************)
C1_ChunkBoundaryInvariance ==
  (pc = "done" /\ status = HTTP_OK /\ IsObjectText(content)
     /\ ~BraceInString(content))
    => yielded = <<ValueOutcome(content)>>

(***************************************************************************)
(* C2.  Malformed recovery.  The case: the text a feed call scans has,     *)
(* after the decodable spans at its front, a candidate span that fails to  *)
(* decode (json.loads raises JSONDecodeError on it), and the text after    *)
(* that span holds a decodable candidate span.                             *)
(***************************************************************************)
BadThenObject(s) ==
  LET b == SkipGood(s)
  IN  /\ HasSpan(b)
      /\ LoadsKind(RefSpan(b)) = "decode_error"
      /\ HasSpan(AfterSpan(b))
      /\ Decodable(RefSpan(AfterSpan(b)))

C4_FinishReportsResidue ==
  (call.op = "finish"
     /\ Strip(call.before) \notin {<< >>, <<"]">>}
     /\ ~Decodable(call.before))
    => /\ Len(call.out) = 1
       /\ call.stop # "raised"

(***************************************************************************)
(* Complete objects as the JSON grammar delimits them (quotes respected).  *)
(***************************************************************************)

\* The number of complete decodable objects s[i..] is made of, written
\* back to back with nothing between or after them; -1 when s[i..] is not
\* such a text.
RECURSIVE CountObjects(_, _)
CountObjects(s, i) ==
  IF i > Len(s) THEN 0
  ELSE IF s[i] # "{" THEN -1
  ELSE LET e == ParseObject(s, i)
       IN  IF e <= 0 THEN -1
           ELSE LET r == CountObjects(s, e)
                IN  IF r < 0 THEN -1 ELSE r + 1

\* The position after the complete objects at the front of s[i..].
RECURSIVE LeadEnd(_, _)
LeadEnd(s, i) ==
  IF i <= Len(s) /\ s[i] = "{" /\ ParseObject(s, i) > 0
  THEN LeadEnd(s, ParseObject(s, i))
  ELSE i

\* Their Values, in order.
RECURSIVE LeadValues(_, _)
LeadValues(s, i) ==
  IF i <= Len(s) /\ s[i] = "{" /\ ParseObject(s, i) > 0
  THEN <<ValueOutcome(SubSeq(s, i, ParseObject(s, i) - 1))>>
         \o LeadValues(s, ParseObject(s, i))
  ELSE << >>

\* s is the unfinished prefix of an object: it opens one and ends inside it.
UnfinishedPrefix(s) ==
  s # << >> /\ s[1] = "{" /\ ParseObject(s, 1) = -1

(***************************************************************************)
(* C5.  Multiple objects per chunk.                                        *)
(***************************************************************************)

\* C5 as claimed: a chunk whose text is k >= 2 complete decodable objects
\* back to back yields, in that feed call, exactly their k Values in
\* left-to-right order, and leaves the buffer empty.
C5_ObjectsPerChunk ==
  (call.op = "feed" /\ CountObjects(call.chunk, 1) >= 2)
    => /\ call.out = LeadValues(call.chunk, 1)
       /\ buffer = << >>

\* C5 amended: the same, for objects with no brace character inside a
\* string literal, fed while the buffer holds no "{".
C5_PlainObjectsPerChunk ==
  (call.op = "feed" /\ CountObjects(call.chunk, 1) >= 2
     /\ ~BraceInString(call.chunk) /\ ~HasBrace(call.before))
    => /\ call.out = LeadValues(call.chunk, 1)
       /\ Len(call.out) = CountObjects(call.chunk, 1)
       /\ buffer = << >>

C5_Witness ==
  /\ call.op = "feed"
  /\ CountObjects(call.chunk, 1) >= 2
  /\ ~BraceInString(call.chunk)
  /\ ~HasBrace(call.before)
  /\ Len(call.out) = 2
  /\ call.out[1] # call.out[2]

(***************************************************************************)
(* C6.  Incomplete tail preserved.                                         *)
(***************************************************************************)

\* A feed call that scans complete objects followed by the unfinished
\* prefix of another yields the objects' Values and leaves exactly the
\* prefix in the buffer (with no object in front, it yields nothing and
\* the prefix stays: no Value before the closing brace has come).
TailKept ==
  LET e == LeadEnd(Scanned, 1)
  IN  UnfinishedPrefix(SliceFrom(Scanned, e - 1))
        => /\ call.out = LeadValues(Scanned, 1)
           /\ buffer = SliceFrom(Scanned, e - 1)
           /\ call.stop = "unbalanced"

\* A feed call that finds an unfinished prefix in the buffer and whose
\* chunk completes the object yields that object's Value first.
TailCompleted ==
  (UnfinishedPrefix(call.before) /\ ParseObject(Scanned, 1) > 0)
    => /\ call.out # << >>
       /\ call.out[1] = ValueOutcome(SliceTo(Scanned, ParseObject(Scanned, 1) - 1))

\* C6 as claimed.
C6_IncompleteTail == FedChunk => (TailKept /\ TailCompleted)

\* C6 amended: the same, for scanned text with no brace character inside
\* a string literal.
C6_PlainIncompleteTail ==
  (FedChunk /\ ~BraceInString(Scanned)) => (TailKept /\ TailCompleted)

\* The second of two feed calls: the first yielded a Value and kept a
\* prefix, this one completed the object and yielded its Value.
C6_Witness ==
  /\ FedChunk
  /\ ~BraceInString(Scanned)
  /\ UnfinishedPrefix(call.before)
  /\ ParseObject(Scanned, 1) > 0
  /\ Len(call.out) = 1
  /\ Len(yielded) = 2

(***************************************************************************)
(* C7.  Trailing bracket tolerance.                                        *)
(***************************************************************************)

\* The chunk is one complete decodable object immediately followed by "]".
ObjectThenBracket(chunk) ==
  /\ Len(chunk) >= 3
  /\ chunk[Len(chunk)] = "]"
  /\ CountObjects(SliceTo(chunk, Len(chunk) - 1), 1) = 1

BracketTolerated ==
  /\ call.out = <<ValueOutcome(SliceTo(call.chunk, Len(call.chunk) - 1))>>
  /\ buffer = <<"]">>

\* When the stream ends on the residual "]", finish yields nothing (and
\* decodes nothing).
BracketIgnoredAtFinish ==
  (call.op = "finish" /\ call.before = <<"]">>)
    => call.out = << >> /\ call.stop = "nothing"

\* C7 as claimed: feeding an object immediately followed by "]" yields the
\* Value of the object alone, and the "]" left in the buffer yields nothing
\* in that call nor at finish.
C7_TrailingBracket ==
  /\ (call.op = "feed" /\ ObjectThenBracket(call.chunk)) => BracketTolerated
  /\ BracketIgnoredAtFinish

\* C7 amended: the same, for an object with no brace character inside a
\* string literal, fed while the buffer holds no "{".
C7_PlainTrailingBracket ==
  /\ (call.op = "feed" /\ ObjectThenBracket(call.chunk)
        /\ ~BraceInString(call.chunk) /\ ~HasBrace(call.before))
       => BracketTolerated
  /\ BracketIgnoredAtFinish

\* The stream ended right after such a feed call.
C7_Witness ==
  /\ call.op = "finish"
  /\ call.before = <<"]">>
  /\ ObjectThenBracket(content)
  /\ ~BraceInString(content)
  /\ Len(yielded) = 1

(***************************************************************************)
(* C8.  Finish produces nothing on empty residue: with the buffer empty,   *)
(* whitespace-only or, whitespace aside, a lone "]", finish yields nothing *)
(* and decodes nothing; otherwise it makes exactly one decode attempt, on  *)
(* the whole remaining buffer.                                             *)
(***************************************************************************)
NonWs(s) == {i \in 1 .. Len(s) : s[i] \notin WS}

EmptyResidue(s) ==
  \/ NonWs(s) = {}
  \/ \E k \in 1 .. Len(s) : NonWs(s) = {k} /\ s[k] = "]"

C8_FinishOnEmptyResidue ==
  call.op = "finish"
    => IF EmptyResidue(call.before)
       THEN call.out = << >> /\ call.decoded = << >>
       ELSE call.decoded = <<call.before>> /\ Len(call.out) <= 1

C8_Witness ==
  /\ call.op = "finish"
  /\ call.before = <<"]">>
  /\ call.decoded = << >>

(***************************************************************************)
(* C9.  Non-200 transport status: the run yields exactly one error outcome *)
(* carrying the status code and the response body; no chunk is fed, the    *)
(* buffer is never scanned and no Value is yielded.                        *)
(***************************************************************************)
C9_Non200Status ==
  status # HTTP_OK
    => /\ call.op \in {"none", "error"}
       /\ call.decoded = << >>
       /\ buffer = << >>
       /\ yielded = IF pc = "done"
                    THEN <<[type |-> "Error", value |-> content, code |-> status]>>
                    ELSE << >>

C9_Witness ==
  /\ status # HTTP_OK
  /\ pc = "done"
  /\ content # << >>
  /\ Len(yielded) = 1

(***************************************************************************)
(* C10.  Empty chunks are ignored: feeding an empty chunk leaves the       *)
(* buffer unchanged and yields nothing, also when an earlier feed call     *)
(* left a complete object in the buffer.                                   *)
(***************************************************************************)
C10_EmptyChunkIgnored ==
  (call.op = "feed" /\ call.chunk = << >>)
    => /\ buffer = call.before
       /\ call.out = << >>
       /\ call.decoded = << >>

C10_Witness ==
  /\ call.op = "feed"
  /\ call.chunk = << >>
  /\ HasSpan(call.before)
  /\ Decodable(RefSpan(call.before))
  /\ buffer = call.before

(***************************************************************************)
(* C11.  Prefix-trim and non-overlap.                                      *)
(***************************************************************************)

\* The text of the k-th resolved span, read back from the accumulated text.
SpanText(k) == SubSeq(accum, resolved[k].from, resolved[k].to)

\* The Values of the first k resolved spans that decoded, in order.
RECURSIVE ValuesOfSpans(_)
ValuesOfSpans(k) ==
  IF k = 0 THEN << >>
  ELSE IF resolved[k].kind = "value"
  THEN Append(ValuesOfSpans(k - 1), ValueOutcome(SpanText(k)))
  ELSE ValuesOfSpans(k - 1)

\* C11: at every moment of a run with status 200, the buffer is exactly the
\* accumulated text that follows the closing "}" of the last resolved span
\* (all of it while no span is resolved); the resolved spans, Values and
\* decode failures alike, each run from a "{" to a "}" of the accumulated
\* text, lie in strictly increasing position and do not overlap, so none is
\* resolved twice; and the feed calls have yielded one Value for each span
\* resolved as a Value, in that order, and nothing else.
C11_PrefixTrimNonOverlap ==
  /\ buffer = IF resolved = << >> THEN accum
              ELSE SliceFrom(accum, resolved[Len(resolved)].to)
  /\ \A k \in 1 .. Len(resolved) :
       /\ 1 <= resolved[k].from
       /\ resolved[k].from < resolved[k].to
       /\ resolved[k].to <= Len(accum)
       /\ accum[resolved[k].from] = "{"
       /\ accum[resolved[k].to] = "}"
  /\ \A j, k \in 1 .. Len(resolved) :
       j < k => resolved[j].to < resolved[k].from
  /\ (status = HTTP_OK /\ pc = "stream") => yielded = ValuesOfSpans(Len(resolved))
  /\ \A k \in 1 .. Len(call.passes) :
       ResolvedPass(call.passes[k])
         => call.passes[k].left
              = Len(Scanned) - call.passes[k].offset - call.passes[k].to

\* A second feed call resolved a span as a Value after an earlier call had
\* discarded one that failed to decode.
C11_Witness ==
  /\ call.op = "feed"
  /\ Len(resolved) = 2
  /\ resolved[1].kind = "decode_error"
  /\ resolved[2].kind = "value"
  /\ Len(call.passes) = 2
  /\ Len(yielded) = 1

(***************************************************************************)
(* C12.  Brace-matching scan against its reference definition.             *)
(***************************************************************************)

\* The buffer the k-th pass of the last feed call began with.
PassText(k) == SliceFrom(Scanned, call.passes[k].offset)

\* The pass k agrees with the reference: its span starts at the first "{"
\* of the buffer and ends at the smallest position where the count of "{"
\* minus the count of "}" from the start is zero, every brace counted; with
\* no "{" or no such position the pass finds nothing and leaves the buffer
\* as it was.
PassMatchesReference(k) ==
  LET p == call.passes[k]
      t == PassText(k)
  IN  IF ~HasBrace(t)
      THEN p.kind = "no_brace" /\ p.left = Len(t)
      ELSE /\ p.from = RefStart(t)
           /\ IF RefEnd(t) = 0
              THEN p.kind = "unbalanced" /\ p.left = Len(t)
              ELSE /\ p.kind \in {"value", "decode_error", "abort"}
                   /\ p.to = RefEnd(t)
                   /\ p.to > p.from
                   /\ p.raw = RefSpan(t)

\* C12: every pass of every feed call chooses the span of the reference
\* definition, and a feed call whose last pass found no span leaves in the
\* buffer the text that pass began with.
C12_ScanMatchesReference ==
  FedChunk =>
    /\ call.passes # << >>
    /\ \A k \in 1 .. Len(call.passes) : PassMatchesReference(k)
    /\ LET n == Len(call.passes)
       IN  call.passes[n].kind \in {"no_brace", "unbalanced"}
             => buffer = PassText(n)

\* A feed call that yielded a Value and then closed a span on a "}" inside
\* a string literal, leaving the rest of that object in the buffer.
C12_Witness ==
  /\ FedChunk
  /\ Len(call.passes) = 2
  /\ call.passes[1].kind = "value"
  /\ call.passes[2].kind = "decode_error"
  /\ BraceInString(call.passes[2].raw)
  /\ buffer # << >>

(***************************************************************************)
(* C13.  Scan abort preserves the buffer.  The exception that is no        *)
(* JSONDecodeError is the RecursionError json.loads raises on a span       *)
(* nested deeper than the interpreter allows.                              *)
(***************************************************************************)

\* The text b opens with a candidate span on which json.loads raises it.
AbortingSpan(b) == HasSpan(b) /\ RaisesRecursion(RefSpan(b))

\* C13: when the text a feed call scans has, after the decodable spans at
\* its front, a span whose decoding raises an exception that is no
\* JSONDecodeError, the call's loop ends on that attempt with no outcome for
\* it (the call yields the Values of the spans before it and nothing else),
\* logs the exception, and leaves the buffer exactly as that attempt found
\* it, the span still at its front; the next feed call scans that buffer
\* with its own chunk appended, and finish decodes that whole buffer.
C13_ScanAbortPreservesBuffer ==
  /\ (FedChunk /\ AbortingSpan(SkipGood(Scanned)))
       => LET b == SkipGood(Scanned)
              n == Len(call.passes)
          IN  /\ call.stop = "abort"
              /\ call.out = GoodValues(Scanned)
              /\ Len(call.out) = n - 1
              /\ buffer = b
              /\ buffer = PassText(n)
              /\ call.logged = <<AbortLog(b)>>
  /\ (FedChunk /\ AbortingSpan(SkipGood(call.before)))
       => buffer = SkipGood(call.before) \o Strip(call.chunk)
  /\ (call.op = "finish" /\ AbortingSpan(SkipGood(call.before)))
       => call.decoded = <<call.before>>

\* The stream ended after a feed call that yielded a Value and then aborted
\* on the next span: finish found that span in the buffer.
C13_Witness ==
  /\ call.op = "finish"
  /\ AbortingSpan(call.before)
  /\ Len(call.before) < Len(accum)
  /\ Len(yielded) = 1
  /\ call.decoded = <<call.before>>

(***************************************************************************)
(* C14.  End-to-end delivery under array framing.                          *)
(***************************************************************************)

\* The texts o1 .. on when s[i..] is  o1 , o2 , ... , on ]  with every oi a
\* decodable object and whitespace allowed between the tokens; a sequence
\* holding an empty text when s[i..] is not of that form.
RECURSIVE FramedFrom(_, _)
FramedFrom(s, i) ==
  LET j == SkipWs(s, i)
  IN  IF j > Len(s) \/ s[j] # "{" \/ ParseObject(s, j) <= 0 THEN << << >> >>
      ELSE LET e == ParseObject(s, j)
               k == SkipWs(s, e)
           IN  IF k > Len(s) THEN << << >> >>
               ELSE IF s[k] = ","
               THEN <<SubSeq(s, j, e - 1)>> \o FramedFrom(s, k + 1)
               ELSE IF s[k] = "]" /\ SkipWs(s, k + 1) = Len(s) + 1
               THEN <<SubSeq(s, j, e - 1)>>
               ELSE << << >> >>

FramedTexts(s) ==
  LET j == SkipWs(s, 1)
  IN  IF j <= Len(s) /\ s[j] = "[" THEN FramedFrom(s, j + 1) ELSE << << >> >>

\* s is "[" o1 "," ... "," on "]" with n >= 1 decodable objects, no brace
\* inside a string literal and whitespace only between tokens.
IsFramedStream(s) ==
  /\ \A k \in 1 .. Len(FramedTexts(s)) : FramedTexts(s)[k] # << >>
  /\ ~BraceInString(s)
  /\ \A i \in 1 .. Len(s) : s[i] \in WS => ~InString(s, i)

\* C14: when a run with status 200 over such a body is done, however the
\* body was cut into chunks, the outcomes of the run are exactly the Values
\* of o1 .. on, in that order, each once, and the final step produced none
\* of them: it found nothing to decode.
C14_ArrayFraming ==
  (status = HTTP_OK /\ IsFramedStream(content))
    => LET t == FramedTexts(content)
           want == [k \in 1 .. Len(t) |-> ValueOutcome(t[k])]
       IN  /\ pc = "done"
             => /\ yielded = want
                /\ call.op = "finish"
                /\ call.out = << >>
                /\ call.stop = "nothing"
           /\ pc = "stream"
             => /\ Len(yielded) <= Len(want)
                /\ yielded = SubSeq(want, 1, Len(yielded))

\* A run over a framed body of two different objects is done; whitespace
\* before the closing "]" was at a chunk border.
C14_Witness ==
  /\ status = HTTP_OK
  /\ pc = "done"
  /\ IsFramedStream(content)
  /\ Len(yielded) = 2
  /\ yielded[1] # yielded[2]
  /\ call.before = <<"]">>

(***************************************************************************)
(* C15.  Every feed call's extraction loop terminates.                     *)
(***************************************************************************)

\* The number of characters the k-th pass of the last feed call removed
\* from the buffer.
Removed(k) == Len(PassText(k)) - call.passes[k].left

\* C15: in every feed call, a pass after which the loop went round again
\* yielded a Value and removed at least two characters from the buffer; the
\* last pass is one that stops the loop (no "{", unbalanced braces, decode
\* failure, or another exception); so the passes of a call are at most one
\* more than half the length of the text it scanned.
C15_LoopTerminates ==
  FedChunk =>
    LET n == Len(call.passes)
    IN  /\ n >= 1
        /\ \A k \in 1 .. n - 1 :
             /\ call.passes[k].kind = "value"
             /\ Removed(k) >= 2
             /\ call.passes[k + 1].offset = call.passes[k].offset + Removed(k)
        /\ call.passes[n].kind \in {"no_brace", "unbalanced", "decode_error", "abort"}
        /\ call.stop = call.passes[n].kind
        /\ 2 * (n - 1) <= Len(Scanned)

\* A feed call of three passes whose first removed exactly two characters.
C15_Witness ==
  /\ FedChunk
  /\ Len(call.passes) = 3
  /\ Removed(1) = 2
  /\ Len(call.out) = 2

(***************************************************************************)
(* C16.  Scan counter and span shape.                                      *)
(***************************************************************************)

\* C16: in every pass of a feed call that scans, the nesting counter is at
\* least 1 after every character read before the one that stops the scan,
\* and never negative (it is 0 after the character that closes a span, and
\* at least 1 when the scan runs off the end of the buffer); every span
\* handed on begins with "{" and ends with "}", one counter value per
\* character, and the text decoded is that span unchanged: neither the
\* strip nor the removal of a trailing "]" alters it.
C16_CounterAndSpanShape ==
  FedChunk =>
    \A k \in 1 .. Len(call.passes) :
      LET p == call.passes[k]
          m == Len(p.counts)
      IN  /\ \A i \in 1 .. m : p.counts[i] >= 0
          /\ \A i \in 1 .. m - 1 : p.counts[i] >= 1
          /\ p.kind = "unbalanced" => m >= 1 /\ p.counts[m] >= 1
          /\ p.kind = "no_brace" => m = 0
          /\ p.kind \in {"value", "decode_error", "abort"}
               => /\ m = Len(p.raw)
                  /\ m >= 2
                  /\ p.counts[m] = 0
                  /\ p.raw[1] = "{"
                  /\ p.raw[m] = "}"
                  /\ p.json_str = p.raw
                  /\ StripBracket(p.raw) = p.raw

\* A feed call decoded a span whose counter went up to 2, with a "]" right
\* after the span.
C16_Witness ==
  /\ FedChunk
  /\ call.passes[1].kind = "value"
  /\ \E i \in 1 .. Len(call.passes[1].counts) : call.passes[1].counts[i] = 2
  /\ buffer = <<"]">>

=============================================================================
